---------------------------- MODULE Spec2Model ----------------------------
(***************************************************************************)
(* Sales analytics pipeline: parse -> validate/filter -> enrich -> persist *)
(* -> report (src/main.py and src/utils/*.py).                             *)
(*                                                                         *)
(* Conventions of the model                                                *)
(*  - a Python str is a sequence of one-character strings, so that split,  *)
(*    strip, replace, startswith, lower, isdigit, int() and float() are    *)
(*    computed character by character;                                     *)
(*  - a Python float is a record [nan, v]: v counts tenths (1.5 is v = 15),*)
(*    nan is the IEEE not-a-number float("nan") yields, for which every    *)
(*    ordered comparison is false;                                         *)
(*  - an optional argument (None or a value) is a record [some, v];        *)
(*  - a Python dict is a function from key names to values.                *)
(***************************************************************************)
EXTENDS Integers, Sequences, FiniteSets, TLC

VARIABLES
    pc,               \* position of the running call / of main
    data_file,        \* data/sales_data.txt: [exists, lines]
    raw_lines,        \* list of str handed to parse_transactions
    all_transactions, \* parse_transactions' result (parsed_data)
    region,           \* validate_and_filter_data's region argument
    min_amount,       \* ... min_amount argument
    max_amount,       \* ... max_amount argument
    valid_data,       \* validate_and_filter_data's first result (valid_txns)
    summary,          \* validate_and_filter_data's summary dict
    invalid_count,    \* validate_and_filter_data's second result
    response,         \* what the catalog request met (transport, status, body)
    api_products,     \* fetch_all_products' result
    enriched_data,    \* main's enriched_data
    enriched_file,    \* data/enriched_sales_data.txt: [exists, rows]
    report_file,      \* output/sales_report.txt: [exists, ...]
    log,              \* the messages printed so far (tags)
    exc,              \* the exception that left the call, or "none"
    heap,             \* dict objects of an enrich_sales_data call, by reference
    transactions,     \* enrich_sales_data's argument: a list of references
    product_mapping,  \* enrich_sales_data's second argument
    enriched_refs,    \* enrich_sales_data's result: a list of references
    impl,             \* which of the two enrich_sales_data definitions is called
    analysis          \* the call of an analytics function and what it returned

vars == <<pc, data_file, raw_lines, all_transactions, region, min_amount,
          max_amount, valid_data, summary, response, api_products,
          enriched_data, enriched_file, report_file, log, exc, heap,
          transactions, product_mapping, enriched_refs, impl, invalid_count,
          analysis>>

----------------------------------------------------------------------------
(* Bounds of the model                                                     *)

MaxLines == 2

MaxTxns == 2

----------------------------------------------------------------------------
(* Python values                                                           *)

F(n) == [nan |-> FALSE, v |-> n]

NaN == [nan |-> TRUE, v |-> 0]

FloatLt(a, b) == ~a.nan /\ ~b.nan /\ a.v < b.v

FloatLe(a, b) == ~a.nan /\ ~b.nan /\ a.v <= b.v

FloatGt(a, b) == ~a.nan /\ ~b.nan /\ a.v > b.v

\* int * float
IntTimesFloat(q, p) == IF p.nan THEN NaN ELSE F(q * p.v)

NoneStr == [some |-> FALSE, v |-> <<>>]

NoneFloat == [some |-> FALSE, v |-> F(0)]

Some(x) == [some |-> TRUE, v |-> x]

Digits == {"0", "1", "2", "5", "9"}

DigitVal(c) == CASE c = "0" -> 0 [] c = "1" -> 1 [] c = "2" -> 2
                 [] c = "5" -> 5 [] c = "9" -> 9

IsSpace(c) == c = " "

RECURSIVE LStrip(_)
LStrip(s) == IF s # <<>> /\ IsSpace(Head(s)) THEN LStrip(Tail(s)) ELSE s

RECURSIVE RStrip(_)
RStrip(s) ==
    IF s # <<>> /\ IsSpace(s[Len(s)]) THEN RStrip(SubSeq(s, 1, Len(s) - 1)) ELSE s

\* str.strip()
Strip(s) == RStrip(LStrip(s))

\* str.replace(c, '')
RemoveChar(s, c) == SelectSeq(s, LAMBDA x : x # c)

\* str.split(sep) for a one-character separator
RECURSIVE Split(_, _)
Split(s, sep) ==
    IF \A i \in 1..Len(s) : s[i] # sep
    THEN <<s>>
    ELSE LET k == CHOOSE i \in 1..Len(s) :
                      s[i] = sep /\ \A j \in 1..(i - 1) : s[j] # sep
         IN  <<SubSeq(s, 1, k - 1)>> \o Split(SubSeq(s, k + 1, Len(s)), sep)

\* str.lower() over the letters the model uses
LowerChar(c) == CASE c = "N" -> "n" [] c = "S" -> "s" [] OTHER -> c

Lower(s) == [i \in 1..Len(s) |-> LowerChar(s[i])]

\* str.startswith(c) for a one-character prefix
StartsWith(s, c) == s # <<>> /\ Head(s) = c

RECURSIVE DigitsValue(_)
DigitsValue(s) ==
    IF s = <<>> THEN 0
    ELSE 10 * DigitsValue(SubSeq(s, 1, Len(s) - 1)) + DigitVal(s[Len(s)])

AllDigits(s) == \A i \in 1..Len(s) : s[i] \in Digits

\* int(s): surrounding whitespace ignored, an optional sign, then at least one
\* digit; anything else is a ValueError.  (Over the characters of the model:
\* no underscore, no non-ASCII digit.)
IntParse(s) ==
    LET t    == Strip(s)
        neg  == t # <<>> /\ Head(t) = "-"
        body == IF t # <<>> /\ Head(t) \in {"-", "+"} THEN Tail(t) ELSE t
    IN  IF body # <<>> /\ AllDigits(body)
        THEN [ok |-> TRUE, v |-> IF neg THEN 0 - DigitsValue(body) ELSE DigitsValue(body)]
        ELSE [ok |-> FALSE, v |-> 0]

\* float(s): surrounding whitespace ignored, an optional sign, then "nan", or
\* digits with at most one "." and at least one digit; anything else is a
\* ValueError.  The value is kept in tenths (texts with one fractional digit).
FloatParse(s) ==
    LET t    == Strip(s)
        neg  == t # <<>> /\ Head(t) = "-"
        body == IF t # <<>> /\ Head(t) \in {"-", "+"} THEN Tail(t) ELSE t
        parts == Split(body, ".")
        ip   == parts[1]
        fp   == IF Len(parts) = 2 THEN parts[2] ELSE <<>>
        mag  == 10 * DigitsValue(ip) + (IF fp = <<>> THEN 0 ELSE DigitVal(fp[1]))
    IN  IF body = <<"n", "a", "n">> THEN [ok |-> TRUE, v |-> NaN]
        ELSE IF /\ Len(parts) <= 2
                /\ AllDigits(ip) /\ AllDigits(fp)
                /\ Len(ip) + Len(fp) > 0
             THEN [ok |-> TRUE, v |-> F(IF neg THEN 0 - mag ELSE mag)]
             ELSE [ok |-> FALSE, v |-> NaN]

RECURSIVE Join(_, _)
Join(fields, sep) ==
    IF Len(fields) = 0 THEN <<>>
    ELSE IF Len(fields) = 1 THEN fields[1]
    ELSE fields[1] \o <<sep>> \o Join(Tail(fields), sep)

RECURSIVE SeqsUpTo(_, _)
SeqsUpTo(S, n) ==
    IF n = 0 THEN {<<>>}
    ELSE LET shorter == SeqsUpTo(S, n - 1)
         IN  shorter \cup {Append(s, x) : s \in {t \in shorter : Len(t) = n - 1}, x \in S}


----------------------------------------------------------------------------
(* Values of the variables a specification does not use                    *)

NoFile == [exists |-> FALSE, lines |-> <<>>]

NoOutput == [exists |-> FALSE, header |-> FALSE, rows |-> <<>>]

NoReport == [exists |-> FALSE, total_txns |-> 0, total_enriched_input |-> 0,
             successful_enrichment |-> 0]

NoResponse == [transport |-> "none", status |-> 0, body |-> "none",
               products |-> "absent", items |-> <<>>]

NoProducts == [kind |-> "list", items |-> <<>>]

ZeroSummary == [total_input |-> 0, invalid_records |-> 0, filtered_by_region |-> 0,
                filtered_by_amount |-> 0, final_count |-> 0]

EmptyMapping == [k \in {} |-> NoProducts]

NoAnalysis == [fn |-> "none"]

IdleFiles ==
    /\ data_file = NoFile
    /\ enriched_file = NoOutput
    /\ report_file = NoReport
    /\ log = <<>>

IdleParse ==
    /\ raw_lines = <<>>
    /\ all_transactions = <<>>

IdleValidate ==
    /\ region = NoneStr
    /\ min_amount = NoneFloat
    /\ max_amount = NoneFloat
    /\ valid_data = <<>>
    /\ summary = ZeroSummary
    /\ invalid_count = 0

IdleFetch ==
    /\ response = NoResponse
    /\ api_products = NoProducts
    /\ enriched_data = <<>>

IdleEnrich ==
    /\ heap = <<>>
    /\ transactions = <<>>
    /\ product_mapping = EmptyMapping
    /\ enriched_refs = <<>>
    /\ impl = "none"

fileVars == <<data_file, enriched_file, report_file, log>>

parseVars == <<raw_lines, all_transactions>>

validateVars == <<region, min_amount, max_amount, valid_data, summary, invalid_count>>

fetchVars == <<response, api_products, enriched_data>>

enrichVars == <<heap, transactions, product_mapping, enriched_refs, impl>>

----------------------------------------------------------------------------
(* parse_transactions (src/utils/data_processor.py)                        *)

\* len(parts) != 8: continue
FieldCountAtLeast(parts) == Len(parts) >= 8

FieldCountOk(parts) == Len(parts) = 8

\* except (ValueError, IndexError): continue
ParseCaught == {"ValueError", "IndexError"}

\* The body of the try for one line whose field count is right: the record,
\* or the exception int() / float() raises.
BuildRecord(parts) ==
    LET q == IntParse(RemoveChar(Strip(parts[5]), ","))
        p == FloatParse(RemoveChar(Strip(parts[6]), ","))
    IN  IF ~q.ok \/ ~p.ok
        THEN [exc |-> "ValueError", rec |-> <<>>]
        ELSE [exc |-> "none",
              rec |-> [TransactionID |-> Strip(parts[1]),
                       Date          |-> Strip(parts[2]),
                       ProductID     |-> Strip(parts[3]),
                       ProductName   |-> RemoveChar(Strip(parts[4]), ","),
                       Quantity      |-> q.v,
                       UnitPrice     |-> p.v,
                       CustomerID    |-> Strip(parts[7]),
                       Region        |-> Strip(parts[8])]]

\* The for loop: parsed_data grows by the lines that build a record; an
\* exception the handler does not name leaves the function.
RECURSIVE ParseLoop(_, _)
ParseLoop(lines, parsed_data) ==
    IF lines = <<>> THEN [exc |-> "none", result |-> parsed_data]
    ELSE LET parts == Split(Head(lines), "|")
         IN  IF ~FieldCountOk(parts) THEN ParseLoop(Tail(lines), parsed_data)
             ELSE LET b == BuildRecord(parts)
                  IN  IF b.exc = "none"
                      THEN ParseLoop(Tail(lines), Append(parsed_data, b.rec))
                      ELSE IF b.exc \in ParseCaught
                      THEN ParseLoop(Tail(lines), parsed_data)
                      ELSE [exc |-> b.exc, result |-> <<>>]

parse_transactions(lines) == ParseLoop(lines, <<>>)

\* Texts of the Quantity and UnitPrice fields the parser is tried on
QtyTexts == { <<"2">>, <<" ", "1", ",", "0", " ">>, <<"1", ".", "5">>,
              <<"x">>, <<"-", "1">> }

PriceTexts == { <<"1", ".", "5">>, <<" ", "2">>, <<"1", ",", "0">>,
                <<"n", "a", "n">>, <<>> }

LineWith(pid, q, p) ==
    Join(<< <<" ", "T", "1">>, <<"d">>, pid, <<"W", ",", "W">>,
            q, p, <<"C">>, <<"N", " ">> >>, "|")

LineOf(q, p) == LineWith(<<"P", "1">>, q, p)

\* Lines with 8 fields, one with 7, one with 9, and one with no delimiter
ParseLineTexts ==
    {LineOf(q, p) : q \in QtyTexts, p \in PriceTexts}
        \cup { Join(<< <<"T", "1">>, <<"d">>, <<"P", "1">>, <<"W">>,
                       <<"2">>, <<"1">>, <<"C">> >>, "|"),
               Join(<< <<"T", "1">>, <<"d">>, <<"P", "1">>, <<"W">>,
                       <<"2">>, <<"1">>, <<"C">>, <<"N">>, <<>> >>, "|"),
               <<"x">> }

InitParse ==
    /\ pc = "parse_call"
    /\ raw_lines \in SeqsUpTo(ParseLineTexts, MaxLines)
    /\ all_transactions = <<>>
    /\ exc = "none"
    /\ analysis = NoAnalysis
    /\ IdleFiles /\ IdleValidate /\ IdleFetch /\ IdleEnrich

ParseTransactions ==
    /\ pc = "parse_call"
    /\ LET r == parse_transactions(raw_lines)
       IN  /\ all_transactions' = r.result
           /\ exc' = r.exc
           /\ pc' = IF r.exc = "none" THEN "parse_returned" ELSE "parse_raised"
    /\ UNCHANGED <<raw_lines, fileVars, validateVars, fetchVars, enrichVars, analysis>>

NextParse == ParseTransactions

SpecParse == InitParse /\ [][NextParse]_vars

(* C4: parse_transactions returns exactly one record for each line that    *)
(* splits on '|' into exactly 8 fields whose Quantity text (trimmed, commas*)
(* removed) converts to an integer and whose UnitPrice text converts to a  *)
(* float, no record for any other line, the records in the order of their  *)
(* lines, and no line raises out of the function.                          *)
LineWellFormed(line) ==
    LET parts == Split(line, "|")
    IN  /\ Len(parts) = 8
        /\ IntParse(RemoveChar(Strip(parts[5]), ",")).ok
        /\ FloatParse(RemoveChar(Strip(parts[6]), ",")).ok

WellFormedIndexes == {i \in 1..Len(raw_lines) : LineWellFormed(raw_lines[i])}

\* the record at position k comes from the k-th well-formed line
LineOfRecord(k) ==
    CHOOSE i \in WellFormedIndexes :
        Cardinality({j \in WellFormedIndexes : j <= i}) = k

ParseExactlyWellFormedLines ==
    pc \in {"parse_returned", "parse_raised"} =>
        /\ pc = "parse_returned" /\ exc = "none"
        /\ Len(all_transactions) = Cardinality(WellFormedIndexes)
        /\ \A k \in 1..Len(all_transactions) :
              LET parts == Split(raw_lines[LineOfRecord(k)], "|")
                  rec   == all_transactions[k]
              IN  /\ rec.TransactionID = Strip(parts[1])
                  /\ rec.Date = Strip(parts[2])
                  /\ rec.ProductID = Strip(parts[3])
                  /\ rec.CustomerID = Strip(parts[7])
                  /\ rec.Region = Strip(parts[8])
                  /\ rec.Quantity = IntParse(RemoveChar(Strip(parts[5]), ",")).v
                  /\ rec.UnitPrice = FloatParse(RemoveChar(Strip(parts[6]), ",")).v

\* two lines, the first malformed and dropped, the second parsed
ParseWitness ==
    /\ pc = "parse_returned"
    /\ Len(raw_lines) = 2
    /\ ~LineWellFormed(raw_lines[1])
    /\ LineWellFormed(raw_lines[2])
    /\ Len(all_transactions) = 1
    /\ all_transactions[1].Quantity = 10

----------------------------------------------------------------------------
(* validate_and_filter_data (src/utils/data_processor.py)                  *)

\* Amount = Quantity * UnitPrice
Amount(txn) == IntTimesFloat(txn.Quantity, txn.UnitPrice)

\* The three validation ifs: each counts the record as invalid and continues.
\* Python's nan <= 0 is False, so a record whose UnitPrice is nan is let by.
StructurallyRejected(txn) ==
    \/ txn.Quantity <= 0 \/ FloatLe(txn.UnitPrice, F(0))
    \/ txn.Region = <<>> \/ txn.CustomerID = <<>>
    \/ ~StartsWith(txn.TransactionID, "T")

\* if region and txn['Region'].lower() != region.lower(): None and '' are falsy
RegionRejected(txn, r) ==
    /\ r.some /\ r.v # <<>>
    /\ Lower(txn.Region) # Lower(r.v)

\* total < min_amount, then total > max_amount, each under "is not None"
AmountRejected(txn, lo, hi) ==
    \/ lo.some /\ FloatLt(Amount(txn), lo.v)
    \/ hi.some /\ FloatGt(Amount(txn), hi.v)

\* The pass that drops a record outside the amount range without counting it
ValidateOneUncounted(st, txn, r, lo, hi) ==
    IF StructurallyRejected(txn)
    THEN [st EXCEPT !.invalid_count = @ + 1]
    ELSE IF RegionRejected(txn, r)
    THEN [st EXCEPT !.filtered_region = @ + 1]
    ELSE IF AmountRejected(txn, lo, hi)
    THEN st
    ELSE [st EXCEPT !.valid_txns = Append(@, txn)]

\* One pass of the for loop over txn, on the running counters and list
ValidateOne(st, txn, r, lo, hi) ==
    IF StructurallyRejected(txn)
    THEN [st EXCEPT !.invalid_count = @ + 1]
    ELSE IF RegionRejected(txn, r)
    THEN [st EXCEPT !.filtered_region = @ + 1]
    ELSE IF AmountRejected(txn, lo, hi)
    THEN [st EXCEPT !.filtered_amount = @ + 1]
    ELSE [st EXCEPT !.valid_txns = Append(@, txn)]

RECURSIVE ValidateLoop(_, _, _, _, _)
ValidateLoop(st, txns, r, lo, hi) ==
    IF txns = <<>> THEN st
    ELSE ValidateLoop(ValidateOne(st, Head(txns), r, lo, hi), Tail(txns), r, lo, hi)

\* returns (valid_txns, invalid_count, summary)
validate_and_filter_data(txns, r, lo, hi) ==
    LET st == ValidateLoop([valid_txns |-> <<>>, invalid_count |-> 0,
                            filtered_region |-> 0, filtered_amount |-> 0],
                           txns, r, lo, hi)
    IN  [valid_txns    |-> st.valid_txns,
         invalid_count |-> st.invalid_count,
         summary |-> [total_input        |-> Len(txns),
                      invalid_records    |-> st.invalid_count,
                      filtered_by_region |-> st.filtered_region,
                      filtered_by_amount |-> st.filtered_amount,
                      final_count        |-> Len(st.valid_txns)]]

\* Parsed records the validator is tried on: every field takes a good value
\* and the values each check rejects; at most one field of a record is bad.
Txn(tid, q, p, cid, reg) ==
    [TransactionID |-> tid, Date |-> <<"d">>, ProductID |-> <<"P", "1">>,
     ProductName |-> <<"W">>, Quantity |-> q, UnitPrice |-> p,
     CustomerID |-> cid, Region |-> reg]

BadFields(t) ==
    {f \in {"TransactionID", "Quantity", "UnitPrice", "CustomerID", "Region"} :
        \/ f = "TransactionID" /\ t.TransactionID = <<"X", "1">>
        \/ f = "Quantity" /\ t.Quantity = 0
        \/ f = "UnitPrice" /\ t.UnitPrice \in {NaN, F(0)}
        \/ f = "CustomerID" /\ t.CustomerID = <<>>
        \/ f = "Region" /\ t.Region = <<>>}

ValidateTxns ==
    {t \in {Txn(tid, q, p, cid, reg) :
                tid \in {<<"T", "1">>, <<"X", "1">>},
                q \in {0, 2},
                p \in {NaN, F(0), F(10), F(20), F(30)},
                cid \in {<<>>, <<"C">>},
                reg \in {<<>>, <<"N">>, <<"S">>}} :
        Cardinality(BadFields(t)) <= 1}

RegionArgs == {NoneStr, Some(<<>>), Some(<<"n">>)}

AmountArgs == {NoneFloat, Some(F(40))}

InitValidate ==
    /\ pc = "validate_call"
    /\ all_transactions \in SeqsUpTo(ValidateTxns, MaxTxns)
    /\ region \in RegionArgs
    /\ min_amount \in AmountArgs
    /\ max_amount \in AmountArgs
    /\ valid_data = <<>>
    /\ summary = ZeroSummary
    /\ invalid_count = 0
    /\ raw_lines = <<>>
    /\ exc = "none"
    /\ analysis = NoAnalysis
    /\ IdleFiles /\ IdleFetch /\ IdleEnrich

ValidateAndFilter ==
    /\ pc = "validate_call"
    /\ LET r == validate_and_filter_data(all_transactions, region, min_amount, max_amount)
       IN  /\ valid_data' = r.valid_txns
           /\ summary' = r.summary
           /\ invalid_count' = r.invalid_count
    /\ pc' = "validate_returned"
    /\ UNCHANGED <<parseVars, region, min_amount, max_amount, exc,
                   fileVars, fetchVars, enrichVars, analysis>>

NextValidate == ValidateAndFilter

SpecValidate == InitValidate /\ [][NextValidate]_vars

\* Structural validity as the specification states it
StructurallyValid(t) ==
    /\ t.Quantity > 0
    /\ FloatGt(t.UnitPrice, F(0))
    /\ t.Region # <<>>
    /\ t.CustomerID # <<>>
    /\ StartsWith(t.TransactionID, "T")

RegionFilterGiven == region.some /\ region.v # <<>>

RegionMatches(t) == RegionFilterGiven => Lower(t.Region) = Lower(region.v)

InAmountRange(t) ==
    /\ min_amount.some => FloatLe(min_amount.v, Amount(t))
    /\ max_amount.some => FloatLe(Amount(t), max_amount.v)

(* C1: every record validate_and_filter_data returns has Quantity > 0,     *)
(* UnitPrice > 0, a non-empty Region, a non-empty CustomerID and a         *)
(* TransactionID that starts with 'T'.                                     *)
ValidatedRecordsAreValid ==
    pc = "validate_returned" =>
        \A i \in 1..Len(valid_data) : StructurallyValid(valid_data[i])

RECURSIVE IsSubSeq(_, _)
IsSubSeq(a, b) ==
    IF a = <<>> THEN TRUE
    ELSE IF b = <<>> THEN FALSE
    ELSE IF Head(a) = Head(b) THEN IsSubSeq(Tail(a), Tail(b))
    ELSE IsSubSeq(a, Tail(b))

(* C2: with a region filter R only records whose Region equals R ignoring  *)
(* case are returned; with min_amount / max_amount only records with       *)
(* min_amount <= Amount <= max_amount; a structurally valid record of a    *)
(* matching region whose Amount is exactly a bound (and within the other)  *)
(* is kept; the kept records are in input order.                           *)
FilterKeepsExactlyTheRange ==
    pc = "validate_returned" =>
        /\ \A i \in 1..Len(valid_data) :
              RegionMatches(valid_data[i]) /\ InAmountRange(valid_data[i])
        /\ \A i \in 1..Len(all_transactions) :
              LET t == all_transactions[i]
              IN  ( /\ StructurallyValid(t) /\ RegionMatches(t) /\ InAmountRange(t)
                    /\ \/ min_amount.some /\ Amount(t) = min_amount.v
                       \/ max_amount.some /\ Amount(t) = max_amount.v )
                  => \E k \in 1..Len(valid_data) : valid_data[k] = t
        /\ IsSubSeq(valid_data, all_transactions)

(* C3: a dropped record increments exactly the counter of the first check  *)
(* it fails, in the order structural validity, region, amount.             *)
CountersFollowPrecedence ==
    pc = "validate_returned" =>
        LET n == Len(all_transactions)
            invalid == {i \in 1..n : ~StructurallyValid(all_transactions[i])}
            byRegion == {i \in 1..n : /\ StructurallyValid(all_transactions[i])
                                      /\ ~RegionMatches(all_transactions[i])}
            byAmount == {i \in 1..n : /\ StructurallyValid(all_transactions[i])
                                      /\ RegionMatches(all_transactions[i])
                                      /\ ~InAmountRange(all_transactions[i])}
        IN  /\ summary.invalid_records = Cardinality(invalid)
            /\ summary.filtered_by_region = Cardinality(byRegion)
            /\ summary.filtered_by_amount = Cardinality(byAmount)

----------------------------------------------------------------------------
(* enrich_sales_data (src/utils/api_handler.py, and its namesake in        *)
(* src/utils/data_processor.py).  The dicts live in a heap, a sequence of  *)
(* objects addressed by position, so that txn.copy() and the assignments   *)
(* to new_txn act on objects and not on values.                            *)

\* new_txn = txn.copy(): a new object holding the same items
DictCopyAlias(h, ref) == [heap |-> h, ref |-> ref]

DictCopy(h, ref) == [heap |-> Append(h, h[ref]), ref |-> Len(h) + 1]

\* d[k] = v
SetItem(d, k, v) == [x \in (DOMAIN d) \cup {k} |-> IF x = k THEN v ELSE d[x]]

\* ''.join(filter(str.isdigit, s))
OnlyDigits(s) == SelectSeq(s, LAMBDA c : c \in Digits)

\* api_handler.py: one pass of the for loop; returns the heap and new_txn
EnrichOneApi(h, ref, mapping) ==
    LET c   == DictCopy(h, ref)
        prod_id_str == h[ref].ProductID
        d0  == SetItem(SetItem(SetItem(c.heap[c.ref],
                   "API_Category", "None"), "API_Brand", "None"), "API_Rating", F(0))
        clean_id_str == OnlyDigits(prod_id_str)
        id  == IntParse(clean_id_str)
        hit == clean_id_str # <<>> /\ id.ok /\ id.v \in DOMAIN mapping
        d1  == IF hit
               THEN SetItem(SetItem(SetItem(d0,
                        "API_Category", mapping[id.v].category),
                        "API_Brand", mapping[id.v].brand),
                        "API_Rating", mapping[id.v].rating)
               ELSE d0
    IN  [heap |-> [c.heap EXCEPT ![c.ref] = SetItem(d1, "API_Match", hit)],
         ref  |-> c.ref]

\* data_processor.py: numeric_id = int(p_id_str.replace('P', '')), or -1 on a
\* ValueError; only the letter P is removed.
EnrichOneDp(h, ref, mapping) ==
    LET c   == DictCopy(h, ref)
        p_id_str == h[ref].ProductID
        id  == IntParse(RemoveChar(p_id_str, "P"))
        numeric_id == IF id.ok THEN id.v ELSE 0 - 1
        hit == numeric_id \in DOMAIN mapping
        d1  == IF hit
               THEN SetItem(SetItem(SetItem(SetItem(c.heap[c.ref],
                        "API_Match", TRUE),
                        "API_Category", mapping[numeric_id].category),
                        "API_Brand", mapping[numeric_id].brand),
                        "API_Rating", mapping[numeric_id].rating)
               ELSE SetItem(SetItem(SetItem(SetItem(c.heap[c.ref],
                        "API_Match", FALSE),
                        "API_Category", "N/A"),
                        "API_Brand", "N/A"),
                        "API_Rating", F(0))
    IN  [heap |-> [c.heap EXCEPT ![c.ref] = d1], ref |-> c.ref]

RECURSIVE EnrichLoopApi(_, _, _, _)
EnrichLoopApi(h, refs, mapping, out) ==
    IF refs = <<>> THEN [heap |-> h, result |-> out]
    ELSE LET r == EnrichOneApi(h, Head(refs), mapping)
         IN  EnrichLoopApi(r.heap, Tail(refs), mapping, Append(out, r.ref))

RECURSIVE EnrichLoopDp(_, _, _, _)
EnrichLoopDp(h, refs, mapping, out) ==
    IF refs = <<>> THEN [heap |-> h, result |-> out]
    ELSE LET r == EnrichOneDp(h, Head(refs), mapping)
         IN  EnrichLoopDp(r.heap, Tail(refs), mapping, Append(out, r.ref))

\* Catalog entries as create_product_mapping stores them
CatalogEntry(id) ==
    IF id = 1
    THEN [title |-> "Mascara", category |-> "beauty", brand |-> "Essence", rating |-> F(45)]
    ELSE [title |-> "Chair", category |-> "furniture", brand |-> "Knoll", rating |-> F(30)]

CatalogIds == {1, 9}

Mappings == {[k \in K |-> CatalogEntry(k)] : K \in SUBSET CatalogIds}

\* ProductID texts: letter and digits, another letter, no digit, empty, absent id
ProductIds == { <<"P", "1">>, <<"X", "1">>, <<"P", "X">>, <<>>, <<"P", "9">> }

EnrichTxns ==
    {[Txn(<<"T", "1">>, 2, F(10), <<"C">>, <<"N">>) EXCEPT !.ProductID = p] :
        p \in ProductIds}

CoreFields == {"TransactionID", "Date", "ProductID", "ProductName", "Quantity",
               "UnitPrice", "CustomerID", "Region"}

InitEnrich ==
    /\ pc = "enrich_call"
    /\ heap \in SeqsUpTo(EnrichTxns, MaxTxns)
    /\ transactions = [i \in 1..Len(heap) |-> i]
    /\ product_mapping \in Mappings
    /\ enriched_refs = <<>>
    /\ impl = "none"
    /\ exc = "none"
    /\ analysis = NoAnalysis
    /\ IdleFiles /\ IdleParse /\ IdleValidate /\ IdleFetch

EnrichApiHandler ==
    /\ pc = "enrich_call"
    /\ LET r == EnrichLoopApi(heap, transactions, product_mapping, <<>>)
       IN  /\ heap' = r.heap
           /\ enriched_refs' = r.result
    /\ impl' = "api_handler"
    /\ pc' = "enrich_returned"
    /\ UNCHANGED <<transactions, product_mapping, exc, fileVars, parseVars,
                   validateVars, fetchVars, analysis>>

EnrichDataProcessor ==
    /\ pc = "enrich_call"
    /\ LET r == EnrichLoopDp(heap, transactions, product_mapping, <<>>)
       IN  /\ heap' = r.heap
           /\ enriched_refs' = r.result
    /\ impl' = "data_processor"
    /\ pc' = "enrich_returned"
    /\ UNCHANGED <<transactions, product_mapping, exc, fileVars, parseVars,
                   validateVars, fetchVars, analysis>>

NextEnrich == EnrichApiHandler \/ EnrichDataProcessor

SpecEnrich == InitEnrich /\ [][NextEnrich]_vars

(* C5: enrich_sales_data is a pure left join: the result has the length of *)
(* the input, its i-th record carries the eight core field values of the   *)
(* i-th input record, and every input record is unchanged by the call (no  *)
(* API_* field added, no core field modified).                             *)
EnrichIsPureLeftJoin ==
    [][ (pc = "enrich_call" /\ pc' = "enrich_returned") =>
          /\ Len(enriched_refs') = Len(transactions)
          /\ transactions' = transactions
          /\ \A i \in 1..Len(transactions) :
                /\ \A f \in CoreFields :
                      heap'[enriched_refs'[i]][f] = heap[transactions[i]][f]
                /\ DOMAIN heap'[transactions[i]] = CoreFields
                /\ \A f \in CoreFields :
                      heap'[transactions[i]][f] = heap[transactions[i]][f] ]_vars

\* two records enriched, the first matched and the second not
EnrichWitness ==
    /\ pc = "enrich_returned"
    /\ Len(transactions) = 2
    /\ Len(enriched_refs) = 2
    /\ heap[enriched_refs[1]].API_Match
    /\ ~heap[enriched_refs[2]].API_Match
    /\ heap[enriched_refs[1]].ProductID # heap[enriched_refs[2]].ProductID

Sentinels == {"None", "N/A"}

(* C6: with all non-digit characters of ProductID removed, an empty rest or*)
(* an id that is no key of the mapping gives API_Match = false, sentinel   *)
(* category and brand and rating 0.0; otherwise API_Match = true and the   *)
(* entry's category, brand and rating; no ProductID raises.                *)
EnrichMatchesOnDigits ==
    pc = "enrich_returned" =>
        /\ exc = "none"
        /\ \A i \in 1..Len(enriched_refs) :
              LET out    == heap[enriched_refs[i]]
                  digits == OnlyDigits(out.ProductID)
                  known  == digits # <<>> /\ DigitsValue(digits) \in DOMAIN product_mapping
              IN  IF known
                  THEN /\ out.API_Match = TRUE
                       /\ out.API_Category = product_mapping[DigitsValue(digits)].category
                       /\ out.API_Brand = product_mapping[DigitsValue(digits)].brand
                       /\ out.API_Rating = product_mapping[DigitsValue(digits)].rating
                  ELSE /\ out.API_Match = FALSE
                       /\ out.API_Category \in Sentinels
                       /\ out.API_Brand \in Sentinels
                       /\ out.API_Rating = F(0)

----------------------------------------------------------------------------
(* read_sales_data (src/utils/file_handler.py)                             *)

\* Outcome of opening and reading an existing file: the cleaned lines, or []
\* after "Unexpected error" (any exception but UnicodeDecodeError).
\* latin-1 decodes every byte, so the encoding loop always ends in a return.
read_sales_data(file, io) ==
    IF ~file.exists THEN <<>>
    ELSE IF io = "error" THEN <<>>
    ELSE IF file.lines = <<>> THEN <<>>
    ELSE LET rest == Tail(file.lines)
             kept == SelectSeq(rest, LAMBDA l : Strip(l) # <<>>)
         IN  [i \in 1..Len(kept) |-> Strip(kept[i])]

----------------------------------------------------------------------------
(* fetch_all_products, create_product_mapping (src/utils/api_handler.py)   *)

\* requests.exceptions.RequestException and its subclasses
RequestExceptions == {"ConnectionError", "Timeout", "HTTPError"}

\* except requests.exceptions.RequestException / except json.JSONDecodeError
FetchCaught == RequestExceptions \cup {"JSONDecodeError"}

\* The try body: requests.get, raise_for_status, response.json(),
\* data.get('products', []), len(products).  The value returned, or the
\* exception raised.
FetchBody(resp) ==
    IF resp.transport # "ok" THEN [exc |-> resp.transport, value |-> NoProducts]
    ELSE IF resp.status >= 400 THEN [exc |-> "HTTPError", value |-> NoProducts]
    ELSE IF resp.body = "not_json" THEN [exc |-> "JSONDecodeError", value |-> NoProducts]
    ELSE IF resp.body # "object" THEN [exc |-> "AttributeError", value |-> NoProducts]
    ELSE IF resp.products = "absent" THEN [exc |-> "none", value |-> NoProducts]
    ELSE IF resp.products \in {"number", "null"}
         THEN [exc |-> "TypeError", value |-> NoProducts]
    ELSE [exc |-> "none", value |-> [kind |-> resp.products, items |-> resp.items]]

\* A caught exception returns []; any other leaves the function.
fetch_all_products(resp) ==
    LET b == FetchBody(resp)
    IN  IF b.exc \in FetchCaught THEN [exc |-> "none", value |-> NoProducts, caught |-> TRUE]
        ELSE [exc |-> b.exc, value |-> b.value, caught |-> FALSE]

\* bool(api_products)
Truthy(products) == products.items # <<>>

\* mapping[p_id] = {...} for every product whose id is truthy; a later product
\* of the same id replaces an earlier one.  Iterating a str or a dict yields
\* str items, and str has no get: AttributeError.
create_product_mapping(products) ==
    IF products.kind # "list" /\ products.items # <<>>
    THEN [exc |-> "AttributeError", mapping |-> EmptyMapping]
    ELSE LET ids == {products.items[i].id : i \in 1..Len(products.items)} \ {0}
             last(k) == CHOOSE i \in 1..Len(products.items) :
                            /\ products.items[i].id = k
                            /\ \A j \in (i + 1)..Len(products.items) :
                                  products.items[j].id # k
         IN  [exc |-> "none",
              mapping |-> [k \in ids |->
                             [title    |-> products.items[last(k)].title,
                              category |-> products.items[last(k)].category,
                              brand    |-> products.items[last(k)].brand,
                              rating   |-> products.items[last(k)].rating]]]

ProductItem(n) ==
    [id |-> n, title |-> CatalogEntry(n).title, category |-> CatalogEntry(n).category,
     brand |-> CatalogEntry(n).brand, rating |-> CatalogEntry(n).rating]

ProductLists == { <<>>, <<ProductItem(1)>>, <<ProductItem(0), ProductItem(9)>> }

Resp(t, st, b, p, it) ==
    [transport |-> t, status |-> st, body |-> b, products |-> p, items |-> it]

\* What the single GET can meet: a transport error or timeout, an error status,
\* and a 200 whose body is not JSON, is JSON but no object, or is an object
\* whose products is absent, a list, or something else.
Responses ==
    {Resp(t, 0, "none", "absent", <<>>) : t \in {"ConnectionError", "Timeout"}}
      \cup {Resp("ok", st, "object", "list", <<>>) : st \in {404, 500}}
      \cup {Resp("ok", 200, b, "absent", <<>>) : b \in {"not_json", "array", "object"}}
      \cup {Resp("ok", 200, "object", p, <<>>) : p \in {"number", "null", "string"}}
      \cup {Resp("ok", 200, "object", "string", <<"a">>)}
      \cup {Resp("ok", 200, "object", "list", it) : it \in ProductLists}

----------------------------------------------------------------------------
(* save_enriched_data (src/utils/api_handler.py)                           *)

DigitChar(d) == CASE d = 0 -> "0" [] d = 1 -> "1" [] d = 2 -> "2" [] d = 3 -> "3"
                  [] d = 4 -> "4" [] d = 5 -> "5" [] d = 6 -> "6" [] d = 7 -> "7"
                  [] d = 8 -> "8" [] d = 9 -> "9"

RECURSIVE NatToChars(_)
NatToChars(n) ==
    IF n < 10 THEN <<DigitChar(n)>> ELSE Append(NatToChars(n \div 10), DigitChar(n % 10))

\* str(int)
StrInt(n) == IF n < 0 THEN <<"-">> \o NatToChars(0 - n) ELSE NatToChars(n)

\* str(float), for values counted in tenths
StrFloat(f) ==
    IF f.nan THEN <<"n", "a", "n">>
    ELSE IF f.v < 0
    THEN <<"-">> \o NatToChars((0 - f.v) \div 10) \o <<".", DigitChar((0 - f.v) % 10)>>
    ELSE NatToChars(f.v \div 10) \o <<".", DigitChar(f.v % 10)>>

\* str(bool)
StrBool(b) == IF b THEN "True" ELSE "False"

\* dict.get(k, default)
Get(d, k, default) == IF k \in DOMAIN d THEN d[k] ELSE default

\* The row written for one record: str(txn.get(field, default)) per column
RowOf(txn) ==
    [TransactionID |-> Get(txn, "TransactionID", <<>>),
     Date          |-> Get(txn, "Date", <<>>),
     ProductID     |-> Get(txn, "ProductID", <<>>),
     ProductName   |-> Get(txn, "ProductName", <<>>),
     Quantity      |-> IF "Quantity" \in DOMAIN txn THEN StrInt(txn.Quantity) ELSE <<>>,
     UnitPrice     |-> IF "UnitPrice" \in DOMAIN txn THEN StrFloat(txn.UnitPrice) ELSE <<>>,
     CustomerID    |-> Get(txn, "CustomerID", <<>>),
     Region        |-> Get(txn, "Region", <<>>),
     API_Category  |-> Get(txn, "API_Category", "None"),
     API_Brand     |-> Get(txn, "API_Brand", "None"),
     API_Rating    |-> StrFloat(Get(txn, "API_Rating", F(0))),
     API_Match     |-> StrBool(Get(txn, "API_Match", FALSE))]

\* io: "ok", "open_fails" (open raises IOError, nothing is created) or
\* "write_fails" (a write raises IOError after `written` rows).  The IOError
\* is caught and printed inside the function, which then returns normally.
save_enriched_data(enriched_transactions, file, io, written) ==
    IF enriched_transactions = <<>>
    THEN [file |-> file, log |-> <<"no_data_to_save">>]
    ELSE IF io = "ok"
    THEN [file |-> [exists |-> TRUE, header |-> TRUE,
                    rows |-> [i \in 1..Len(enriched_transactions) |->
                                 RowOf(enriched_transactions[i])]],
          log |-> <<"saving", "file_saved">>]
    ELSE IF io = "open_fails"
    THEN [file |-> file, log |-> <<"saving", "error_saving">>]
    ELSE [file |-> [exists |-> TRUE, header |-> TRUE,
                    rows |-> [i \in 1..written |-> RowOf(enriched_transactions[i])]],
          log |-> <<"saving", "error_saving">>]

----------------------------------------------------------------------------
(* generate_sales_report (src/utils/report_generator.py)                   *)

\* sum(1 for t in enriched_transactions if t.get('API_Match', False))
SuccessfulEnrichment(enriched_transactions) ==
    Cardinality({i \in 1..Len(enriched_transactions) :
                    Get(enriched_transactions[i], "API_Match", FALSE)})

\* io: "ok", or "OSError" when os.makedirs or open raises; nothing in the
\* function catches it.
generate_sales_report(txns, enriched_transactions, file, io) ==
    IF io = "ok"
    THEN [exc |-> "none",
          file |-> [exists |-> TRUE, total_txns |-> Len(txns),
                    total_enriched_input |-> Len(enriched_transactions),
                    successful_enrichment |-> SuccessfulEnrichment(enriched_transactions)],
          log |-> <<"report_started", "report_generated">>]
    ELSE [exc |-> "OSError", file |-> file, log |-> <<"report_started">>]

----------------------------------------------------------------------------
(* main (src/main.py): one action per numbered stage.  The outcomes of the *)
(* environment (reading, the catalog request, writing) are chosen at the   *)
(* stage that meets them.  A user interrupt (KeyboardInterrupt) is not     *)
(* modelled.                                                               *)

\* if not raw_lines: print the diagnostic and return
EmptyInputNever(lines) == FALSE

EmptyInput(lines) == lines = <<>>

\* enriched_data = valid_data, the fallback when api_products is empty
FallbackNothing(valid) == <<>>

Fallback(valid) == valid

Header == <<"h">>

BlankLine == <<" ">>

\* Data rows of the input file: two valid rows of different products, a row
\* of quantity 0, a row whose price is nan, a row without delimiters, a blank
MainLineTexts ==
    { LineWith(<<"P", "1">>, <<"2">>, <<"2">>),
      LineWith(<<"P", "5">>, <<"2">>, <<"1", ".", "5">>),
      LineWith(<<"P", "1">>, <<"0">>, <<"2">>),
      LineWith(<<"P", "1">>, <<"2">>, <<"n", "a", "n">>),
      <<"x">>,
      BlankLine }

\* The input file: missing, empty, or a header and up to MaxLines lines
MainFiles ==
    {NoFile, [exists |-> TRUE, lines |-> <<>>]}
        \cup {[exists |-> TRUE, lines |-> <<Header>> \o ls] :
                 ls \in SeqsUpTo(MainLineTexts, MaxLines)}

Init ==
    /\ pc = "start"
    /\ data_file \in MainFiles
    /\ enriched_file = NoOutput
    /\ report_file = NoReport
    /\ log = <<>>
    /\ exc = "none"
    /\ analysis = NoAnalysis
    /\ IdleParse /\ IdleValidate /\ IdleFetch /\ IdleEnrich

\* [1/10]: the existence check, read_sales_data, the emptiness check
MainRead ==
    /\ pc = "start"
    /\ IF ~data_file.exists
       THEN /\ log' = Append(log, "not_found")
            /\ pc' = "returned"
            /\ UNCHANGED raw_lines
       ELSE \E io \in {"ok", "error"} :
              LET lines == read_sales_data(data_file, io)
              IN  IF EmptyInput(lines)
                  THEN /\ log' = Append(log, "empty_or_unreadable")
                       /\ pc' = "returned"
                       /\ UNCHANGED raw_lines
                  ELSE /\ raw_lines' = lines
                       /\ log' = Append(log, "read")
                       /\ pc' = "parse"
    /\ UNCHANGED <<data_file, enriched_file, report_file, all_transactions, exc,
                   validateVars, fetchVars, enrichVars, analysis>>

\* [2/10]
MainParse ==
    /\ pc = "parse"
    /\ LET r == parse_transactions(raw_lines)
       IN  IF r.exc = "none"
           THEN /\ all_transactions' = r.result
                /\ log' = Append(log, "parsed")
                /\ pc' = "validate"
                /\ UNCHANGED exc
           ELSE /\ exc' = r.exc
                /\ log' = Append(log, "critical")
                /\ pc' = "returned"
                /\ UNCHANGED all_transactions
    /\ UNCHANGED <<data_file, enriched_file, report_file, raw_lines,
                   validateVars, fetchVars, enrichVars, analysis>>

\* [3/10] and [4/10]: the filters the user enters, validate_and_filter_data,
\* and the exit when nothing is left
MainValidate ==
    /\ pc = "validate"
    /\ \E selected_region \in {NoneStr, Some(<<"s">>)},
          min_val \in AmountArgs :
          LET r == validate_and_filter_data(all_transactions, selected_region,
                                            min_val, NoneFloat)
          IN  /\ region' = selected_region
              /\ min_amount' = min_val
              /\ max_amount' = NoneFloat
              /\ valid_data' = r.valid_txns
              /\ summary' = r.summary
              /\ invalid_count' = r.invalid_count
              /\ IF r.valid_txns = <<>>
                 THEN /\ log' = Append(log, "no_valid_data")
                      /\ pc' = "returned"
                 ELSE /\ log' = Append(log, "validated")
                      /\ pc' = "analyze"
    /\ UNCHANGED <<data_file, enriched_file, report_file, parseVars, exc,
                   fetchVars, enrichVars, analysis>>

\* [5/10]: calculate_total_revenue and find_peak_sales_day, results unused
MainAnalyze ==
    /\ pc = "analyze"
    /\ log' = Append(log, "analysis_complete")
    /\ pc' = "fetch"
    /\ UNCHANGED <<data_file, enriched_file, report_file, parseVars, exc,
                   validateVars, fetchVars, enrichVars, analysis>>

\* [6/10]: fetch_all_products; an exception it lets out reaches main's
\* "except Exception"
MainFetch ==
    /\ pc = "fetch"
    /\ \E resp \in Responses :
          LET r == fetch_all_products(resp)
          IN  /\ response' = resp
              /\ IF r.exc # "none"
                 THEN /\ exc' = r.exc
                      /\ log' = log \o <<"api_fetch", "critical">>
                      /\ pc' = "returned"
                      /\ UNCHANGED api_products
                 ELSE /\ api_products' = r.value
                      /\ log' = log \o <<"api_fetch">>
                                    \o (IF r.caught THEN <<"api_error">> ELSE <<>>)
                                    \o (IF Truthy(r.value) THEN <<"fetched">>
                                        ELSE <<"fetch_warning">>)
                      /\ pc' = "enrich"
                      /\ UNCHANGED exc
    /\ UNCHANGED <<data_file, enriched_file, report_file, parseVars,
                   validateVars, enriched_data, enrichVars, analysis>>

\* [7/10]: create_product_mapping and enrich_sales_data, or the fallback
MainEnrich ==
    /\ pc = "enrich"
    /\ IF Truthy(api_products)
       THEN LET m == create_product_mapping(api_products)
                r == EnrichLoopApi(valid_data, [i \in 1..Len(valid_data) |-> i],
                                   m.mapping, <<>>)
            IN  IF m.exc # "none"
                THEN /\ exc' = m.exc
                     /\ log' = Append(log, "critical")
                     /\ pc' = "returned"
                     /\ UNCHANGED <<valid_data, enriched_data>>
                ELSE /\ valid_data' = SubSeq(r.heap, 1, Len(valid_data))
                     /\ enriched_data' = [i \in 1..Len(r.result) |-> r.heap[r.result[i]]]
                     /\ log' = Append(log, "enriched")
                     /\ pc' = "save"
                     /\ UNCHANGED exc
       ELSE /\ enriched_data' = Fallback(valid_data)
            /\ log' = Append(log, "skip_enrichment")
            /\ pc' = "save"
            /\ UNCHANGED <<valid_data, exc>>
    /\ UNCHANGED <<data_file, enriched_file, report_file, parseVars, region,
                   min_amount, max_amount, summary, invalid_count, response,
                   api_products,
                   enrichVars, analysis>>

\* [8/10]: save_enriched_data, then "Saved to" whatever happened inside
MainSave ==
    /\ pc = "save"
    /\ \E io \in {"ok", "open_fails", "write_fails"} :
       \E written \in 0..Len(enriched_data) :
          /\ (io = "write_fails") => written < Len(enriched_data)
          /\ (io # "write_fails") => written = 0
          /\ LET r == save_enriched_data(enriched_data, enriched_file, io, written)
             IN  /\ enriched_file' = r.file
                 /\ log' = log \o r.log \o <<"saved_to">>
    /\ pc' = "report"
    /\ UNCHANGED <<data_file, report_file, parseVars, exc, validateVars,
                   fetchVars, enrichVars, analysis>>

\* [9/10] and [10/10]: generate_sales_report, then the success banner
MainReport ==
    /\ pc = "report"
    /\ \E io \in {"ok", "OSError"} :
          LET r == generate_sales_report(valid_data, enriched_data, report_file, io)
          IN  /\ report_file' = r.file
              /\ IF r.exc = "none"
                 THEN /\ log' = log \o r.log \o <<"report_saved_to", "success">>
                      /\ UNCHANGED exc
                 ELSE /\ log' = log \o r.log \o <<"critical">>
                      /\ exc' = r.exc
    /\ pc' = "returned"
    /\ UNCHANGED <<data_file, enriched_file, parseVars, validateVars,
                   fetchVars, enrichVars, analysis>>

Next ==
    \/ MainRead
    \/ MainParse
    \/ MainValidate
    \/ MainAnalyze
    \/ MainFetch
    \/ MainEnrich
    \/ MainSave
    \/ MainReport

Spec == Init /\ [][Next]_vars

InLog(tag) == \E i \in 1..Len(log) : log[i] = tag

Before(a, b) == \E i, j \in 1..Len(log) : i < j /\ log[i] = a /\ log[j] = b

\* fetch_all_products has just returned to main, or its exception has just
\* reached main's handler
JustFetched ==
    \/ pc = "enrich"
    \/ pc = "returned" /\ Len(log) >= 2 /\ log[Len(log) - 1] = "api_fetch"

\* a transport error or timeout, a non-success status, a malformed body
FetchFailed(resp) ==
    \/ resp.transport # "ok"
    \/ resp.status >= 400
    \/ resp.body # "object"
    \/ resp.products \notin {"absent", "list"}

(* C7: on a transport error or timeout, a non-success status, or a         *)
(* malformed body (not JSON, JSON that is no object, an object whose       *)
(* products is not a list) fetch_all_products returns an empty list and    *)
(* raises nothing to its caller.                                           *)
FetchFailureYieldsEmptyList ==
    (JustFetched /\ FetchFailed(response)) =>
        /\ pc = "enrich"
        /\ exc = "none"
        /\ api_products = NoProducts

\* the fetch returned an empty list to main (and the validated set, which
\* main requires to get this far, is not empty)
EmptyCatalogRun ==
    /\ InLog("fetch_warning")
    /\ api_products = NoProducts
    /\ valid_data # <<>>

(* C8: when the validated set is not empty and the fetch yields an empty   *)
(* list, the run is not aborted: it goes on to persist the enriched        *)
(* dataset and then to generate the report; every persisted row has        *)
(* API_Match false, the default category and brand and rating 0.0; the     *)
(* report counts zero successfully enriched transactions.                  *)
EmptyCatalogDegrades ==
    EmptyCatalogRun =>
        /\ pc \in {"enrich", "save", "report", "returned"}
        /\ pc \in {"report", "returned"} => InLog("saving")
        /\ pc = "returned" => Before("saving", "report_started")
        /\ InLog("file_saved") =>
              /\ enriched_file.exists
              /\ Len(enriched_file.rows) = Len(valid_data)
              /\ \A i \in 1..Len(valid_data) :
                    enriched_file.rows[i].TransactionID = valid_data[i].TransactionID
        /\ \A i \in 1..Len(enriched_file.rows) :
              /\ enriched_file.rows[i].API_Match = "False"
              /\ enriched_file.rows[i].API_Category = "None"
              /\ enriched_file.rows[i].API_Brand = "None"
              /\ enriched_file.rows[i].API_Rating = <<"0", ".", "0">>
        /\ report_file.exists =>
              /\ report_file.successful_enrichment = 0
              /\ report_file.total_enriched_input = Len(valid_data)

\* such a run that saved two rows and wrote the report
EmptyCatalogWitness ==
    /\ EmptyCatalogRun
    /\ pc = "returned"
    /\ InLog("success")
    /\ Len(enriched_file.rows) = 2
    /\ report_file.exists

(* C9: when opening or writing the enriched dataset file fails, the        *)
(* failure is reported, report generation is not started afterwards and    *)
(* the run prints none of its success messages.                            *)
SaveFailureAborts ==
    InLog("error_saving") =>
        /\ ~InLog("report_started")
        /\ ~InLog("success")

\* the input file is missing, empty, or holds no non-blank line after the
\* header
NoDataRows ==
    \/ ~data_file.exists
    \/ data_file.lines = <<>>
    \/ \A i \in 2..Len(data_file.lines) : Strip(data_file.lines[i]) = <<>>

(* C10: when the input file is missing, empty or header-only, no record is *)
(* parsed and the run exits early with a diagnostic: the catalog fetch is  *)
(* never issued and neither output file is created or written.             *)
NoRowsExitsEarly ==
    NoDataRows =>
        /\ pc \in {"start", "returned"}
        /\ pc = "returned" => log \in {<<"not_found">>, <<"empty_or_unreadable">>}
        /\ all_transactions = <<>>
        /\ ~InLog("api_fetch")
        /\ enriched_file = NoOutput
        /\ report_file = NoReport

\* a file of a header and blank lines, after the early exit
NoRowsWitness ==
    /\ data_file.exists
    /\ Len(data_file.lines) = 3
    /\ NoDataRows
    /\ pc = "returned"
    /\ log = <<"empty_or_unreadable">>

----------------------------------------------------------------------------
(* The two writers called directly: save_enriched_data (both definitions)  *)
(* on enriched_data, generate_sales_report on valid_data and enriched_data *)

\* data_processor.py: the row reads t['API_Category'] and the other eleven
\* keys by subscript, so a record that lacks a key raises KeyError
RowKeys ==
    {"TransactionID", "Date", "ProductID", "ProductName", "Quantity", "UnitPrice",
     "CustomerID", "Region", "API_Category", "API_Brand", "API_Rating", "API_Match"}

HasRowKeys(t) == RowKeys \subseteq DOMAIN t

\* The rows written before the first record that cannot be written
RECURSIVE RowsUntilKeyError(_)
RowsUntilKeyError(ts) ==
    IF ts = <<>> \/ ~HasRowKeys(Head(ts)) THEN <<>>
    ELSE <<RowOf(Head(ts))>> \o RowsUntilKeyError(Tail(ts))

\* data_processor.py's save_enriched_data: the same early return on an empty
\* list; `except Exception` catches the IOError and the KeyError alike
save_enriched_data_dp(enriched_transactions, file, io, written) ==
    IF enriched_transactions = <<>>
    THEN [file |-> file, log |-> <<"no_data_to_save">>]
    ELSE IF io = "open_fails"
    THEN [file |-> file, log |-> <<"saving", "error_saving">>]
    ELSE LET rows == RowsUntilKeyError(enriched_transactions)
             upto == IF io = "write_fails" /\ written < Len(rows)
                     THEN written ELSE Len(rows)
             done == io = "ok" /\ Len(rows) = Len(enriched_transactions)
         IN  [file |-> [exists |-> TRUE, header |-> TRUE, rows |-> SubSeq(rows, 1, upto)],
              log |-> <<"saving", IF done THEN "file_saved" ELSE "error_saving">>]

\* A record as enrich_sales_data leaves it: matched, or with the defaults
Enriched(t, hit) ==
    SetItem(SetItem(SetItem(SetItem(t,
        "API_Category", IF hit THEN CatalogEntry(1).category ELSE "None"),
        "API_Brand", IF hit THEN CatalogEntry(1).brand ELSE "None"),
        "API_Rating", IF hit THEN CatalogEntry(1).rating ELSE F(0)),
        "API_Match", hit)

WriterTxn == Txn(<<"T", "1">>, 2, F(20), <<"C">>, <<"N">>)

\* What the writers are handed: validated records, enriched or (after the
\* fallback of main) not
WriterRecords == {WriterTxn, Enriched(WriterTxn, TRUE), Enriched(WriterTxn, FALSE)}

InitWriters ==
    /\ pc = "writer_call"
    /\ valid_data \in SeqsUpTo({WriterTxn}, MaxTxns)
    /\ enriched_data \in SeqsUpTo(WriterRecords, MaxTxns)
    /\ region = NoneStr /\ min_amount = NoneFloat /\ max_amount = NoneFloat
    /\ summary = ZeroSummary /\ invalid_count = 0
    /\ response = NoResponse /\ api_products = NoProducts
    /\ exc = "none"
    /\ analysis = NoAnalysis
    /\ IdleFiles /\ IdleParse /\ IdleEnrich

\* save_enriched_data(enriched_data) of api_handler.py
SaveApiHandler ==
    /\ pc = "writer_call"
    /\ \E io \in {"ok", "open_fails", "write_fails"} :
       \E written \in 0..Len(enriched_data) :
          /\ (io = "write_fails") => written < Len(enriched_data)
          /\ (io # "write_fails") => written = 0
          /\ LET r == save_enriched_data(enriched_data, enriched_file, io, written)
             IN  /\ enriched_file' = r.file
                 /\ log' = log \o r.log
    /\ pc' = "save_returned"
    /\ UNCHANGED <<data_file, report_file, parseVars, exc, validateVars,
                   fetchVars, enrichVars, analysis>>

\* save_enriched_data(enriched_data) of data_processor.py
SaveDataProcessor ==
    /\ pc = "writer_call"
    /\ \E io \in {"ok", "open_fails", "write_fails"} :
       \E written \in 0..Len(enriched_data) :
          /\ (io = "write_fails") => written < Len(enriched_data)
          /\ (io # "write_fails") => written = 0
          /\ LET r == save_enriched_data_dp(enriched_data, enriched_file, io, written)
             IN  /\ enriched_file' = r.file
                 /\ log' = log \o r.log
    /\ pc' = "save_returned"
    /\ UNCHANGED <<data_file, report_file, parseVars, exc, validateVars,
                   fetchVars, enrichVars, analysis>>

\* generate_sales_report(valid_data, enriched_data)
GenerateReport ==
    /\ pc = "writer_call"
    /\ \E io \in {"ok", "OSError"} :
          LET r == generate_sales_report(valid_data, enriched_data, report_file, io)
          IN  /\ report_file' = r.file
              /\ log' = log \o r.log
              /\ exc' = r.exc
    /\ pc' = "report_returned"
    /\ UNCHANGED <<data_file, enriched_file, parseVars, validateVars,
                   fetchVars, enrichVars, analysis>>

NextWriters ==
    \/ SaveApiHandler
    \/ SaveDataProcessor
    \/ GenerateReport

SpecWriters == InitWriters /\ [][NextWriters]_vars

\* C11: a writer called with an empty record set returns without creating
\* its output file: after save_enriched_data on an empty enriched list the
\* enriched file does not exist, and after generate_sales_report on an empty
\* transaction list the report file does not exist.
WritersSuppressOnEmpty ==
    /\ (pc = "save_returned" /\ enriched_data = <<>>) => ~enriched_file.exists
    /\ (pc = "report_returned" /\ valid_data = <<>>) => ~report_file.exists

----------------------------------------------------------------------------
(* The analytics functions of data_processor.py, called directly on a      *)
(* validated record set.  A dict the code fills in a loop is modelled by   *)
(* its keys in insertion order (Python dicts keep it) and, per key, the    *)
(* records that were accumulated under it.  Sums and key lists are         *)
(* computed by halves of the list; the order of the keys and the decimal   *)
(* sums are those of the loop.  A rounded amount counts hundredths: it is  *)
(* a record [nan, c].                                                      *)

MaxSales == 3

\* n=1000 in low_performing_products' call of top_selling_products
LowPerformingN == 1000

\* float + float
FloatAdd(a, b) == IF a.nan \/ b.nan THEN NaN ELSE F(a.v + b.v)

\* The integer nearest to num / den (den > 0), a tie going to the even one
RoundHalfEven(num, den) ==
    LET q == num \div den
        r == num % den
    IN  IF 2 * r < den THEN q
        ELSE IF 2 * r > den THEN q + 1
        ELSE IF q % 2 = 0 THEN q ELSE q + 1

\* round(x, 2) of a float counted in tenths; round(nan, 2) is nan
Round2(f) == IF f.nan THEN [nan |-> TRUE, c |-> 0]
             ELSE [nan |-> FALSE, c |-> RoundHalfEven(100 * f.v, 10)]

\* The keys t[field] of the records lo..hi in order of first occurrence
RECURSIVE KeysInOrder(_, _, _, _)
KeysInOrder(txns, field, lo, hi) ==
    IF lo > hi THEN <<>>
    ELSE IF lo = hi THEN <<txns[lo][field]>>
    ELSE LET mid   == (lo + hi) \div 2
             left  == KeysInOrder(txns, field, lo, mid)
             right == KeysInOrder(txns, field, mid + 1, hi)
         IN  left \o SelectSeq(right, LAMBDA k : \A i \in 1..Len(left) : left[i] # k)

\* The records accumulated under one key
RowsOf(txns, field, key) == SelectSeq(txns, LAMBDA t : t[field] = key)

\* sum of t['Quantity'] over the records lo..hi
RECURSIVE SumQuantity(_, _, _)
SumQuantity(txns, lo, hi) ==
    IF lo > hi THEN 0
    ELSE IF lo = hi THEN txns[lo].Quantity
    ELSE LET mid == (lo + hi) \div 2
         IN  SumQuantity(txns, lo, mid) + SumQuantity(txns, mid + 1, hi)

\* sum of t['Quantity'] * t['UnitPrice'] over the records lo..hi
RECURSIVE SumAmount(_, _, _)
SumAmount(txns, lo, hi) ==
    IF lo > hi THEN F(0)
    ELSE IF lo = hi THEN Amount(txns[lo])
    ELSE LET mid == (lo + hi) \div 2
         IN  FloatAdd(SumAmount(txns, lo, mid), SumAmount(txns, mid + 1, hi))

\* list.sort(key=lambda x: x[1]), with reverse=True when descending.  The
\* sort is stable: entries of equal quantity keep their order.
SortByQty(product_list, descending) ==
    LET tagged == [i \in 1..Len(product_list) |-> [i |-> i, e |-> product_list[i]]]
        sorted == SortSeq(tagged, LAMBDA a, b :
                      IF a.e.qty = b.e.qty THEN a.i < b.i
                      ELSE IF descending THEN a.e.qty > b.e.qty
                      ELSE a.e.qty < b.e.qty)
    IN  [k \in 1..Len(product_list) |-> sorted[k].e]

\* product_list[:n]
Slice(product_list, n) ==
    SubSeq(product_list, 1, IF n < Len(product_list) THEN n ELSE Len(product_list))

\* A tuple (name, qty, rev) is a record [name, qty, rev]
top_selling_products(txns, n) ==
    LET names == KeysInOrder(txns, "ProductName", 1, Len(txns))
        product_list ==
            [k \in 1..Len(names) |->
                LET rows == RowsOf(txns, "ProductName", names[k])
                IN  [name |-> names[k],
                     qty  |-> SumQuantity(rows, 1, Len(rows)),
                     rev  |-> Round2(SumAmount(rows, 1, Len(rows)))]]
    IN  Slice(SortByQty(product_list, TRUE), n)

low_performing_products(txns, threshold) ==
    LET all_products == top_selling_products(txns, LowPerformingN)
        low_products == SelectSeq(all_products, LAMBDA p : p.qty < threshold)
    IN  SortByQty(low_products, FALSE)

\* sum(t['Quantity'] * t['UnitPrice'] for t in transactions)
calculate_total_revenue(txns) == SumAmount(txns, 1, Len(txns))

\* total_revenue > 0, the condition under which the percentage divides
DenominatorPositive(total_revenue) == FloatGt(total_revenue, F(0))

\* round((total_sales / total_revenue) * 100, 2) in hundredths of a percent,
\* or the int 0.  Dividing by 0.0 raises ZeroDivisionError; x / nan is nan.
Percentage(total_sales, total_revenue) ==
    IF ~DenominatorPositive(total_revenue)
    THEN [exc |-> "none", value |-> [nan |-> FALSE, c |-> 0]]
    ELSE IF ~total_revenue.nan /\ total_revenue.v = 0
    THEN [exc |-> "ZeroDivisionError", value |-> [nan |-> FALSE, c |-> 0]]
    ELSE IF total_sales.nan \/ total_revenue.nan
    THEN [exc |-> "none", value |-> [nan |-> TRUE, c |-> 0]]
    ELSE [exc |-> "none",
          value |-> [nan |-> FALSE,
                     c |-> RoundHalfEven(10000 * total_sales.v, total_revenue.v)]]

\* The orders of the same entries
Orderings(s) ==
    {[i \in 1..Len(s) |-> s[p[i]]] :
        p \in {q \in [1..Len(s) -> 1..Len(s)] :
                  \A i, j \in 1..Len(s) : q[i] = q[j] => i = j}}

\* sorted(final_stats.items(), key=total_sales, reverse=True): stable, so
\* regions of equal sales keep their insertion order.  When a key is nan the
\* comparisons are all false and the order the sort leaves depends on the
\* comparisons it happens to make: every order is allowed then.
SortBySales(final_stats) ==
    IF \E k \in 1..Len(final_stats) : final_stats[k].total_sales.nan
    THEN Orderings(final_stats)
    ELSE LET tagged == [i \in 1..Len(final_stats) |-> [i |-> i, e |-> final_stats[i]]]
             sorted == SortSeq(tagged, LAMBDA a, b :
                           IF a.e.total_sales.c = b.e.total_sales.c THEN a.i < b.i
                           ELSE a.e.total_sales.c > b.e.total_sales.c)
         IN  {[k \in 1..Len(final_stats) |-> sorted[k].e]}

\* The dict returned is the sequence of its items [region, total_sales,
\* transaction_count, percentage]; the result is the set of the outcomes
\* [exc, value] the call can have (one, unless a total is nan).
region_wise_sales(txns) ==
    LET total_revenue == calculate_total_revenue(txns)
        regions == KeysInOrder(txns, "Region", 1, Len(txns))
        Sales(k) == LET rows == RowsOf(txns, "Region", regions[k])
                    IN  SumAmount(rows, 1, Len(rows))
        raised == \E k \in 1..Len(regions) :
                     Percentage(Sales(k), total_revenue).exc # "none"
        final_stats ==
            [k \in 1..Len(regions) |->
                [region            |-> regions[k],
                 total_sales       |-> Round2(Sales(k)),
                 transaction_count |-> Len(RowsOf(txns, "Region", regions[k])),
                 percentage        |-> Percentage(Sales(k), total_revenue).value]]
    IN  IF raised THEN {[exc |-> "ZeroDivisionError", value |-> <<>>]}
        ELSE {[exc |-> "none", value |-> v] : v \in SortBySales(final_stats)}

\* The code point of a character of a date string
Ord(c) == CASE c = "-" -> 45 [] c = "0" -> 48 [] c = "1" -> 49 [] c = "2" -> 50
            [] c = "3" -> 51 [] c = "4" -> 52 [] c = "5" -> 53 [] c = "6" -> 54
            [] c = "7" -> 55 [] c = "8" -> 56 [] c = "9" -> 57

\* str < str: at the first difference the smaller code point decides, and a
\* proper prefix is smaller
StrLess(a, b) ==
    \/ Len(a) < Len(b) /\ \A i \in 1..Len(a) : a[i] = b[i]
    \/ \E i \in 1..Len(a) :
          /\ i <= Len(b)
          /\ \A j \in 1..(i - 1) : a[j] = b[j]
          /\ Ord(a[i]) < Ord(b[i])

\* The dict returned is the sequence of its items [date, daily_revenue,
\* transaction_count, unique_customers], in the order of sorted(keys)
daily_sales_trend(txns) ==
    LET dates == KeysInOrder(txns, "Date", 1, Len(txns))
        sorted_dates == SortSeq(dates, StrLess)
    IN  [k \in 1..Len(sorted_dates) |->
            LET rows == RowsOf(txns, "Date", sorted_dates[k])
            IN  [date              |-> sorted_dates[k],
                 daily_revenue     |-> Round2(SumAmount(rows, 1, Len(rows))),
                 transaction_count |-> Len(rows),
                 unique_customers  |->
                     Cardinality({rows[i].CustomerID : i \in 1..Len(rows)})]]

\* float > float on rounded amounts; false when either is nan
CentsGt(a, b) == ~a.nan /\ ~b.nan /\ a.c > b.c

\* max(trends.items(), key=daily_revenue): the scan keeps the item it holds
\* unless the next one's key is greater
RECURSIVE MaxScan(_, _, _)
MaxScan(trends, k, best) ==
    IF k > Len(trends) THEN best
    ELSE MaxScan(trends, k + 1,
                 IF CentsGt(trends[k].daily_revenue, best.daily_revenue)
                 THEN trends[k] ELSE best)

NoPeak == [some |-> FALSE]

\* None, or the tuple (date, daily_revenue, transaction_count)
find_peak_sales_day(txns) ==
    LET trends == daily_sales_trend(txns)
    IN  IF Len(trends) = 0 THEN NoPeak
        ELSE LET peak_day == MaxScan(trends, 2, trends[1])
             IN  [some |-> TRUE, date |-> peak_day.date,
                  daily_revenue |-> peak_day.daily_revenue,
                  transaction_count |-> peak_day.transaction_count]

\* A validated record of the given date, product name, region, quantity and
\* unit price
Sale(date, name, reg, q, p) ==
    [TransactionID |-> <<"T", "1">>, Date |-> date, ProductID |-> <<"P", "1">>,
     ProductName |-> name, Quantity |-> q, UnitPrice |-> p,
     CustomerID |-> <<"C">>, Region |-> reg]

\* Date strings whose lexicographic order ("1" < "10" < "2") is not the
\* numeric one
SaleDates == {<<"1">>, <<"1", "0">>, <<"2">>}

\* Records of two products in three regions, and the record of a nan price
\* that the validator lets by
SaleRecords ==
    {Sale(d, pr[1], pr[2], q, F(10)) :
        d \in SaleDates, q \in {1, 2},
        pr \in {<<(<<"W">>), (<<"N">>)>>, <<(<<"G">>), (<<"S">>)>>, <<(<<"W">>), (<<"E">>)>>}}
      \cup {Sale(d, <<"G">>, <<"N">>, 1, NaN) : d \in {<<"1">>, <<"2">>}}

\* n records of n different products, each valid
ManyProducts(n) ==
    [i \in 1..n |-> Sale(<<"1">>, <<"p">> \o NatToChars(i), <<"N">>, 1, F(10))]

\* What validate_and_filter_data returns, without filters, for the lists of
\* up to MaxSales records, and a list of more products than LowPerformingN
ValidatedSets ==
    {validate_and_filter_data(l, NoneStr, NoneFloat, NoneFloat).valid_txns :
        l \in SeqsUpTo(SaleRecords, MaxSales)}
      \cup {ManyProducts(LowPerformingN + 1)}

InitAnalytics ==
    /\ pc = "analytics_call"
    /\ valid_data \in ValidatedSets
    /\ region = NoneStr /\ min_amount = NoneFloat /\ max_amount = NoneFloat
    /\ summary = ZeroSummary /\ invalid_count = 0
    /\ exc = "none"
    /\ analysis = NoAnalysis
    /\ IdleFiles /\ IdleParse /\ IdleFetch /\ IdleEnrich

\* low_performing_products(valid_data, threshold); the default threshold is 10
LowPerformingProducts ==
    /\ pc = "analytics_call"
    /\ \E threshold \in {2, 3, 10} :
          analysis' = [fn |-> "low_performing_products", threshold |-> threshold,
                       value |-> low_performing_products(valid_data, threshold)]
    /\ pc' = "analytics_returned"
    /\ UNCHANGED <<exc, fileVars, parseVars, validateVars, fetchVars, enrichVars>>

\* region_wise_sales(valid_data)
RegionWiseSales ==
    /\ pc = "analytics_call"
    /\ \E r \in region_wise_sales(valid_data) :
          /\ analysis' = [fn |-> "region_wise_sales", value |-> r.value]
          /\ exc' = r.exc
    /\ pc' = "analytics_returned"
    /\ UNCHANGED <<fileVars, parseVars, validateVars, fetchVars, enrichVars>>

\* find_peak_sales_day(valid_data)
FindPeakSalesDay ==
    /\ pc = "analytics_call"
    /\ analysis' = [fn |-> "find_peak_sales_day",
                    value |-> find_peak_sales_day(valid_data)]
    /\ pc' = "analytics_returned"
    /\ UNCHANGED <<exc, fileVars, parseVars, validateVars, fetchVars, enrichVars>>

NextAnalytics ==
    \/ LowPerformingProducts
    \/ RegionWiseSales
    \/ FindPeakSalesDay

SpecAnalytics == InitAnalytics /\ [][NextAnalytics]_vars

ProductNames == {valid_data[i].ProductName : i \in 1..Len(valid_data)}

RowsOfProduct(name) == RowsOf(valid_data, "ProductName", name)

QuantityOver(rows) == SumQuantity(rows, 1, Len(rows))

RevenueOver(rows) == SumAmount(rows, 1, Len(rows))

\* C12: low_performing_products returns exactly the products whose quantity
\* summed over all their records is below the threshold, none missing and
\* none extra or twice, each with its total quantity and its total revenue
\* (rounded to 2 decimals), in ascending order of total quantity.
LowPerformersAreExact ==
    analysis.fn = "low_performing_products" =>
        LET low == analysis.value
        IN  /\ \A name \in ProductNames :
                  (QuantityOver(RowsOfProduct(name)) < analysis.threshold)
                      <=> (\E k \in 1..Len(low) : low[k].name = name)
            /\ \A k \in 1..Len(low) :
                  /\ low[k].name \in ProductNames
                  /\ low[k].qty = QuantityOver(RowsOfProduct(low[k].name))
                  /\ low[k].rev = Round2(RevenueOver(RowsOfProduct(low[k].name)))
                  /\ \A j \in 1..(k - 1) : low[j].name # low[k].name
                  /\ k < Len(low) => low[k].qty <= low[k + 1].qty

Regions == {valid_data[i].Region : i \in 1..Len(valid_data)}

RECURSIVE SumOfField(_, _, _)
SumOfField(stats, field, n) ==
    IF n = 0 THEN 0 ELSE SumOfField(stats, field, n - 1) + stats[n][field]

RECURSIVE SumOfCents(_, _, _)
SumOfCents(stats, field, n) ==
    IF n = 0 THEN 0 ELSE SumOfCents(stats, field, n - 1) + stats[n][field].c

\* |a - b| is at most half a unit of the last rounded digit per region
WithinRounding(a, b, n) == 2 * (a - b) <= n /\ 2 * (b - a) <= n

\* C13: for a non-empty validated record set region_wise_sales has one entry
\* per region of the records, the total_sales of the entries sum to
\* calculate_total_revenue of the set and the percentages to 100 (both to
\* within the rounding of each entry), and the transaction_count values sum
\* to the number of records; the call raises no division error, and when the
\* grand total is 0 every percentage is 0.
RegionSalesAddUp ==
    analysis.fn = "region_wise_sales" =>
        LET stats == analysis.value
            n     == Len(stats)
            total == calculate_total_revenue(valid_data)
        IN  /\ exc = "none"
            /\ (~total.nan /\ total.v = 0) =>
                   \A k \in 1..n : stats[k].percentage = [nan |-> FALSE, c |-> 0]
            /\ valid_data # <<>> =>
                 /\ {stats[k].region : k \in 1..n} = Regions
                 /\ \A j, k \in 1..n : stats[j].region = stats[k].region => j = k
                 /\ SumOfField(stats, "transaction_count", n) = Len(valid_data)
                 /\ ~total.nan
                 /\ \A k \in 1..n : ~stats[k].total_sales.nan /\ ~stats[k].percentage.nan
                 /\ WithinRounding(SumOfCents(stats, "total_sales", n), 10 * total.v, n)
                 /\ WithinRounding(SumOfCents(stats, "percentage", n), 10000, n)

SalesDates == {valid_data[i].Date : i \in 1..Len(valid_data)}

RowsOfDate(date) == RowsOf(valid_data, "Date", date)

\* The daily revenue of a date as daily_sales_trend reports it
DailyRevenue(date) == Round2(RevenueOver(RowsOfDate(date)))

\* float >= float on rounded amounts; false when either is nan
CentsGe(a, b) == ~a.nan /\ ~b.nan /\ a.c >= b.c

\* C14: for an empty record set find_peak_sales_day returns no peak day;
\* otherwise it returns a date of the records with that date's daily revenue
\* and transaction count, the revenue is the maximum (at least that of every
\* other date), and among the dates that tie for it the returned date is the
\* lexicographically smallest, whatever the order of the records.
PeakDayIsFirstMaximum ==
    analysis.fn = "find_peak_sales_day" =>
        LET peak == analysis.value
        IN  IF valid_data = <<>> THEN peak = NoPeak
            ELSE /\ peak.some
                 /\ peak.date \in SalesDates
                 /\ peak.daily_revenue = DailyRevenue(peak.date)
                 /\ peak.transaction_count = Len(RowsOfDate(peak.date))
                 /\ \A d \in SalesDates \ {peak.date} :
                       /\ CentsGe(peak.daily_revenue, DailyRevenue(d))
                       /\ DailyRevenue(d) = peak.daily_revenue => StrLess(peak.date, d)

----------------------------------------------------------------------------
(* The counters of validate_and_filter_data                                *)

\* C15: when validate_and_filter_data returns, its summary partitions the
\* input: final_count + invalid_records + filtered_by_region +
\* filtered_by_amount = total_input, total_input is the length of the input
\* list, final_count is the length of the returned list, and the second
\* return value is invalid_records; this for every input list and filters.
SummaryIsPartition ==
    pc = "validate_returned" =>
        /\ summary.final_count + summary.invalid_records + summary.filtered_by_region
              + summary.filtered_by_amount = summary.total_input
        /\ summary.total_input = Len(all_transactions)
        /\ summary.final_count = Len(valid_data)
        /\ invalid_count = summary.invalid_records

\* A call with both filters given that rejected one record as invalid and
\* dropped the other by its amount
PartitionWitness ==
    /\ pc = "validate_returned"
    /\ region.some /\ min_amount.some
    /\ Len(all_transactions) = 2
    /\ invalid_count = 1
    /\ summary.filtered_by_amount = 1

============================================================================
